---- MODULE Spec2Model ----
(***************************************************************************)
(* The FeatureFile context manager of calculate.py: several worker         *)
(* processes make attempts on the cache entry of ONE WorkItem.  The shared *)
(* state is the file system: the pending path (<stem>.tmp), the final path *)
(* (<stem>.npy), the files (inodes) they name and the advisory lock that   *)
(* portalocker (flock) keeps per file.  Every action is one file-system    *)
(* visible step of one process, so that TLC explores the interleavings of  *)
(* uncoordinated processes.                                                *)
(***************************************************************************)
EXTENDS Integers, Sequences, FiniteSets, TLC

\* Bounds of the model.
NProcs == 2          \* worker processes working on the same WorkItem
MaxAttempts == 2     \* attempts each process makes on the WorkItem
RecLen == 2          \* blocks of one serialized record

Procs == 1..NProcs
\* The processes of Procs and one more, which makes attempts only in
\* SpecLive (a process that waits for a lock nobody will release takes a
\* third process).
AllProcs == 1..(NProcs + 1)
\* A path names at most one file and every process has at most one file
\* open, so two files more than there are processes always suffice.
Inodes == 1..(NProcs + 3)

VARIABLES
    tmp,       \* file named by the pending path self.fh.name (0: no such file)
    npy,       \* file named by the final path self.npy (0: no such file)
    data,      \* data[i]: the content of file i as the OS sees it
    flock,     \* flock[i]: the process holding the exclusive lock on file i
    pc,        \* pc[p]: where process p stands in its attempt
    fh,        \* fh[p]: the file self.fh has open (0: closed)
    pos,       \* pos[p]: the file offset of self.fh
    buf,       \* buf[p]: blocks written to self.fh and not yet flushed
    saved,     \* saved[p]: self.saved
    opened,    \* opened[p]: __enter__ returned self in this attempt
    exc,       \* exc[p]: the exception the attempt raises to its caller
    attempt,   \* attempt[p]: the number of the attempt of p
    renames,   \* number of os.rename calls that succeeded
    firstLock, \* the process whose portalocker.lock returned first
    pre,       \* pre[p]: the final file was non-empty when the attempt began
    ioerr,     \* ioerr[p]: the check of the final path met an I/O error
    \* Calculator.genComputationList
    roots,     \* the objects of typeids, as conn.getObject resolves them
    dims,      \* dims[i]: <<sizeC, sizeZ, sizeT>> of the image with id i
    stack,     \* the running imageGenerator calls: <<objs, next index>> each
    plane,     \* the c, z, t of planeParamsGen for the image being expanded
    out,       \* the parameter tuples genComputationList has yielded
    walked,    \* the images imageGenerator has yielded
    epc,       \* where genComputationList stands
    \* example
    item,      \* the iid of the loop of example()
    outcomes,  \* what the loop has seen of the items it went through
    bpc,       \* where example() stands
    \* FeatureFile.__init__
    work,      \* two WorkItems <<iid, c, z, t>>
    ff,        \* the FeatureFile objects made for them
    fpc        \* whether they have been made

fileVars == <<tmp, npy, data, flock, pc, fh, pos, buf, saved, opened, exc,
              attempt, renames, firstLock, pre, ioerr>>
enumVars == <<roots, dims, stack, plane, out, walked, epc>>
batchVars == <<item, outcomes, bpc>>
pathVars == <<work, ff, fpc>>
\* The variables that the attempts on a WorkItem leave alone.
pureVars == <<enumVars, batchVars, pathVars>>

vars == <<fileVars, enumVars, batchVars, pathVars>>

Max(a, b) == IF a >= b THEN a ELSE b

\* The zero block the OS puts where a write lands beyond the end of a file.
Hole == <<0, 0>>

\* The serialized array that process p passes to save(): RecLen blocks.
Rec(p) == [i \in 1..RecLen |-> <<p, i>>]

\* write(2) of blocks at offset off into a file whose content is d.
WriteAt(d, off, blocks) ==
    IF blocks = <<>> THEN d
    ELSE [i \in 1..Max(Len(d), off + Len(blocks)) |->
            IF i > off /\ i <= off + Len(blocks) THEN blocks[i - off]
            ELSE IF i <= Len(d) THEN d[i] ELSE Hole]

\* A file lives while a path names it or a process has it open.
Live(i, t, n, f) == i = t \/ i = n \/ \E p \in AllProcs : f[p] = i

\* The content of the files once the files that stopped living are gone.
Reclaim(d, t, n, f) ==
    [i \in Inodes |-> IF Live(i, t, n, f) THEN d[i] ELSE <<>>]

\* A file number that no path and no process refers to.
FreshInode == CHOOSE i \in Inodes : ~Live(i, tmp, npy, fh)

\* file.close() of self.fh by p: the buffered blocks are written at the
\* file offset, the descriptor is closed and with it the lock is dropped.
Flushed(p) == [data EXCEPT ![fh[p]] = WriteAt(@, pos[p], buf[p])]
Unlocked(p) == [i \in Inodes |-> IF flock[i] = p THEN 0 ELSE flock[i]]
Closed(p) == [fh EXCEPT ![p] = 0]

InitFiles ==
    /\ tmp = 0
    /\ npy = 0
    /\ data = [i \in Inodes |-> <<>>]
    /\ flock = [i \in Inodes |-> 0]
    /\ pc = [p \in AllProcs |-> "start"]
    /\ fh = [p \in AllProcs |-> 0]
    /\ pos = [p \in AllProcs |-> 0]
    /\ buf = [p \in AllProcs |-> <<>>]
    /\ saved = [p \in AllProcs |-> FALSE]
    /\ opened = [p \in AllProcs |-> FALSE]
    /\ exc = [p \in AllProcs |-> "none"]
    /\ attempt = [p \in AllProcs |-> 1]
    /\ renames = 0
    /\ firstLock = 0
    /\ pre = [p \in AllProcs |-> FALSE]
    /\ ioerr = [p \in AllProcs |-> FALSE]

\* Nothing to enumerate.
InitEnumIdle ==
    /\ roots = <<>>
    /\ dims = <<>>
    /\ stack = <<>>
    /\ plane = <<>>
    /\ out = <<>>
    /\ walked = <<>>
    /\ epc = "idle"

\* example() is not running.
InitBatchIdle ==
    /\ item = 0
    /\ outcomes = <<>>
    /\ bpc = "idle"

\* No FeatureFile object to make.
InitPathsIdle ==
    /\ work = <<>>
    /\ ff = <<>>
    /\ fpc = "idle"

Init == InitFiles /\ InitEnumIdle /\ InitBatchIdle /\ InitPathsIdle

\* The test of __enter__: the final path names a file of size > 0.
AlreadyExists == npy # 0 /\ Len(data[npy]) > 0

\* __enter__: self.fh = open(lock, 'w+').  The pending path is created if it
\* names no file, and truncated if it names one, whoever holds its lock.
Open(p) ==
    /\ pc[p] = "start"
    /\ LET i == IF tmp = 0 THEN FreshInode ELSE tmp IN
        /\ tmp' = i
        /\ data' = [data EXCEPT ![i] = <<>>]
        /\ fh' = [fh EXCEPT ![p] = i]
    /\ pos' = [pos EXCEPT ![p] = 0]
    /\ pre' = [pre EXCEPT ![p] = AlreadyExists]
    /\ pc' = [pc EXCEPT ![p] = "lock"]
    /\ UNCHANGED <<npy, flock, buf, saved, opened, exc, attempt, renames,
                   firstLock, ioerr>>
    /\ UNCHANGED pureVars

\* __enter__: portalocker.lock(self.fh, LOCK_EX) blocks until no other
\* process holds the lock on the file that self.fh has open.
Lock(p) ==
    /\ pc[p] = "lock"
    /\ flock[fh[p]] = 0
    /\ flock' = [flock EXCEPT ![fh[p]] = p]
    /\ firstLock' = IF firstLock = 0 THEN p ELSE firstLock
    /\ pc' = [pc EXCEPT ![p] = "check"]
    /\ UNCHANGED <<tmp, npy, data, fh, pos, buf, saved, opened, exc, attempt,
                   renames, pre, ioerr>>
    /\ UNCHANGED pureVars

\* Check testing the size of the pending file instead of the final file.
CheckPending(p) ==
    /\ pc[p] = "check"
    /\ IF tmp # 0 /\ Len(data[tmp]) > 0
         THEN /\ exc' = [exc EXCEPT ![p] = "CalculationException"]
              /\ pc' = [pc EXCEPT ![p] = "enter_unlink"]
              /\ UNCHANGED opened
         ELSE /\ opened' = [opened EXCEPT ![p] = TRUE]
              /\ pc' = [pc EXCEPT ![p] = "body"]
              /\ UNCHANGED exc
    /\ UNCHANGED <<tmp, npy, data, flock, fh, pos, buf, saved, attempt,
                   renames, firstLock, pre, ioerr>>
    /\ UNCHANGED pureVars

\* __enter__: open(self.npy), seek to the end, tell.  A non-empty final file
\* raises CalculationException; otherwise (no file: IOError, or an empty
\* file) __enter__ returns self.
Check(p) ==
    /\ pc[p] = "check"
    /\ IF AlreadyExists
         THEN /\ exc' = [exc EXCEPT ![p] = "CalculationException"]
              /\ pc' = [pc EXCEPT ![p] = "enter_unlink"]
              /\ UNCHANGED opened
         ELSE /\ opened' = [opened EXCEPT ![p] = TRUE]
              /\ pc' = [pc EXCEPT ![p] = "body"]
              /\ UNCHANGED exc
    /\ UNCHANGED <<tmp, npy, data, flock, fh, pos, buf, saved, attempt,
                   renames, firstLock, pre, ioerr>>
    /\ UNCHANGED pureVars

\* os.unlink(self.fh.name): removes whatever file the pending path names now;
\* raises OSError (ENOENT) when the path names none.
UnlinkFails == tmp = 0

\* EnterUnlink with the delete of the pending path left out.
EnterNoUnlink(p) ==
    /\ pc[p] = "enter_unlink"
    /\ pc' = [pc EXCEPT ![p] = "enter_close"]
    /\ UNCHANGED <<tmp, npy, data, flock, fh, pos, buf, saved, opened, exc,
                   attempt, renames, firstLock, pre, ioerr>>
    /\ UNCHANGED pureVars

\* __enter__, the handler "except: os.unlink(self.fh.name); raise".  An
\* OSError of the unlink replaces the exception being handled.
EnterUnlink(p) ==
    /\ pc[p] = "enter_unlink"
    /\ IF UnlinkFails
         THEN /\ exc' = [exc EXCEPT ![p] = "OSError"]
              /\ UNCHANGED <<tmp, data>>
         ELSE /\ tmp' = 0
              /\ data' = Reclaim(data, 0, npy, fh)
              /\ UNCHANGED exc
    /\ pc' = [pc EXCEPT ![p] = "enter_close"]
    /\ UNCHANGED <<npy, flock, fh, pos, buf, saved, opened, attempt, renames,
                   firstLock, pre, ioerr>>
    /\ UNCHANGED pureVars

\* __enter__, the handler "except: self.fh.close(); raise".
EnterClose(p) ==
    /\ pc[p] = "enter_close"
    /\ fh' = Closed(p)
    /\ flock' = Unlocked(p)
    /\ data' = Reclaim(Flushed(p), tmp, npy, Closed(p))
    /\ buf' = [buf EXCEPT ![p] = <<>>]
    /\ pc' = [pc EXCEPT ![p] = "done"]
    /\ UNCHANGED <<tmp, npy, pos, saved, opened, exc, attempt, renames,
                   firstLock, pre, ioerr>>
    /\ UNCHANGED pureVars

\* save(a): numpy.save(self.fh, a) writes the record through the buffer of
\* the file object.  k blocks have reached the file when save returns (how
\* many depends on the size of the array against the buffer); the others
\* stay in the buffer until the file is closed.
Save(p, k) ==
    /\ pc[p] = "body"
    /\ ~saved[p]
    /\ data' = [data EXCEPT ![fh[p]] = WriteAt(@, pos[p], SubSeq(Rec(p), 1, k))]
    /\ pos' = [pos EXCEPT ![p] = pos[p] + k]
    /\ buf' = [buf EXCEPT ![p] = SubSeq(Rec(p), k + 1, RecLen)]
    /\ saved' = [saved EXCEPT ![p] = TRUE]
    /\ UNCHANGED <<tmp, npy, flock, pc, fh, opened, exc, attempt, renames,
                   firstLock, pre, ioerr>>
    /\ UNCHANGED pureVars

\* The body of the with statement ends, normally or (e) by an exception of
\* the caller's code; either way __exit__ runs next.
EndBody(p, e) ==
    /\ pc[p] = "body"
    /\ exc' = [exc EXCEPT ![p] = IF e THEN "BodyException" ELSE "none"]
    /\ pc' = [pc EXCEPT ![p] = "exit"]
    /\ UNCHANGED <<tmp, npy, data, flock, fh, pos, buf, saved, opened,
                   attempt, renames, firstLock, pre, ioerr>>
    /\ UNCHANGED pureVars

\* os.rename(self.fh.name, self.npy): the final path comes to name the file
\* that the pending path names now; raises OSError (ENOENT) when it names none.
RenameFails == tmp = 0

\* ExitPath with the delete of the unsaved branch left out.
ExitPathKeepsPending(p) ==
    /\ pc[p] = "exit"
    /\ IF saved[p]
         THEN IF RenameFails
                THEN /\ exc' = [exc EXCEPT ![p] = "OSError"]
                     /\ pc' = [pc EXCEPT ![p] = "done"]
                     /\ UNCHANGED <<tmp, npy, data, renames>>
                ELSE /\ npy' = tmp
                     /\ tmp' = 0
                     /\ data' = Reclaim(data, 0, tmp, fh)
                     /\ renames' = renames + 1
                     /\ pc' = [pc EXCEPT ![p] = "exit_close"]
                     /\ UNCHANGED exc
         ELSE /\ pc' = [pc EXCEPT ![p] = "exit_close"]
              /\ UNCHANGED <<tmp, npy, data, exc, renames>>
    /\ UNCHANGED <<flock, fh, pos, buf, saved, opened, attempt, firstLock, pre, ioerr>>
    /\ UNCHANGED pureVars

\* __exit__: os.rename if self.saved, os.unlink otherwise.  When the call
\* raises, __exit__ is left at once: self.fh.close() is not reached.
ExitPath(p) ==
    /\ pc[p] = "exit"
    /\ IF saved[p]
         THEN IF RenameFails
                THEN /\ exc' = [exc EXCEPT ![p] = "OSError"]
                     /\ pc' = [pc EXCEPT ![p] = "done"]
                     /\ UNCHANGED <<tmp, npy, data, renames>>
                ELSE /\ npy' = tmp
                     /\ tmp' = 0
                     /\ data' = Reclaim(data, 0, tmp, fh)
                     /\ renames' = renames + 1
                     /\ pc' = [pc EXCEPT ![p] = "exit_close"]
                     /\ UNCHANGED exc
         ELSE IF UnlinkFails
                THEN /\ exc' = [exc EXCEPT ![p] = "OSError"]
                     /\ pc' = [pc EXCEPT ![p] = "done"]
                     /\ UNCHANGED <<tmp, npy, data, renames>>
                ELSE /\ tmp' = 0
                     /\ data' = Reclaim(data, 0, npy, fh)
                     /\ pc' = [pc EXCEPT ![p] = "exit_close"]
                     /\ UNCHANGED <<npy, exc, renames>>
    /\ UNCHANGED <<flock, fh, pos, buf, saved, opened, attempt, firstLock, pre, ioerr>>
    /\ UNCHANGED pureVars

\* __exit__: self.fh.close().
ExitClose(p) ==
    /\ pc[p] = "exit_close"
    /\ fh' = Closed(p)
    /\ flock' = Unlocked(p)
    /\ data' = Reclaim(Flushed(p), tmp, npy, Closed(p))
    /\ buf' = [buf EXCEPT ![p] = <<>>]
    /\ pc' = [pc EXCEPT ![p] = "done"]
    /\ UNCHANGED <<tmp, npy, pos, saved, opened, exc, attempt, renames,
                   firstLock, pre, ioerr>>
    /\ UNCHANGED pureVars

\* A file object that __exit__ left open is closed when the interpreter
\* drops the FeatureFile object or the process ends.
Finalize(p) ==
    /\ pc[p] = "done"
    /\ fh[p] # 0
    /\ fh' = Closed(p)
    /\ flock' = Unlocked(p)
    /\ data' = Reclaim(Flushed(p), tmp, npy, Closed(p))
    /\ buf' = [buf EXCEPT ![p] = <<>>]
    /\ UNCHANGED <<tmp, npy, pc, pos, saved, opened, exc, attempt, renames,
                   firstLock, pre, ioerr>>
    /\ UNCHANGED pureVars

\* FeatureFile(iid, z, c, t) for the same WorkItem again: a new object with
\* self.saved = False.
Restart(p) ==
    /\ pc[p] = "done"
    /\ fh[p] = 0
    /\ attempt[p] < MaxAttempts
    /\ attempt' = [attempt EXCEPT ![p] = attempt[p] + 1]
    /\ saved' = [saved EXCEPT ![p] = FALSE]
    /\ opened' = [opened EXCEPT ![p] = FALSE]
    /\ exc' = [exc EXCEPT ![p] = "none"]
    /\ pos' = [pos EXCEPT ![p] = 0]
    /\ pre' = [pre EXCEPT ![p] = FALSE]
    /\ ioerr' = [ioerr EXCEPT ![p] = FALSE]
    /\ pc' = [pc EXCEPT ![p] = "start"]
    /\ UNCHANGED <<tmp, npy, data, flock, fh, buf, renames, firstLock>>
    /\ UNCHANGED pureVars

Next ==
    \E p \in Procs :
        \/ Open(p)
        \/ Lock(p)
        \/ Check(p)
        \/ EnterUnlink(p)
        \/ EnterClose(p)
        \/ \E k \in 0..RecLen : Save(p, k)
        \/ \E e \in BOOLEAN : EndBody(p, e)
        \/ ExitPath(p)
        \/ ExitClose(p)
        \/ Finalize(p)
        \/ Restart(p)

Spec == Init /\ [][Next]_vars

\* The process of p is killed: the OS closes its descriptor, which drops its
\* lock; what the file object had buffered is lost.
Crash(p) ==
    /\ pc[p] \in {"lock", "check", "enter_unlink", "enter_close", "body",
                  "exit", "exit_close"}
    /\ fh' = Closed(p)
    /\ flock' = Unlocked(p)
    /\ data' = Reclaim(data, tmp, npy, Closed(p))
    /\ buf' = [buf EXCEPT ![p] = <<>>]
    /\ pc' = [pc EXCEPT ![p] = "crashed"]
    /\ UNCHANGED <<tmp, npy, pos, saved, opened, exc, attempt, renames,
                   firstLock, pre, ioerr>>
    /\ UNCHANGED pureVars

NextCrash == Next \/ \E p \in Procs : Crash(p)

SpecCrash == Init /\ [][NextCrash]_vars

\* __enter__: open(self.npy) or f.seek raises an IOError that is not "file
\* not found" (permission denied, I/O error).  "except IOError: pass" takes
\* it for file not found and __enter__ returns self.
CheckIOError(p) ==
    /\ pc[p] = "check"
    /\ ioerr' = [ioerr EXCEPT ![p] = TRUE]
    /\ opened' = [opened EXCEPT ![p] = TRUE]
    /\ pc' = [pc EXCEPT ![p] = "body"]
    /\ UNCHANGED <<tmp, npy, data, flock, fh, pos, buf, saved, exc, attempt,
                   renames, firstLock, pre>>
    /\ UNCHANGED pureVars

\* __enter__: portalocker.lock raises LockException; the handler
\* "except: self.fh.close(); raise" closes the file and leaves the pending
\* path in place.
LockFail(p) ==
    /\ pc[p] = "lock"
    /\ fh' = Closed(p)
    /\ data' = Reclaim(data, tmp, npy, Closed(p))
    /\ exc' = [exc EXCEPT ![p] = "LockException"]
    /\ pc' = [pc EXCEPT ![p] = "done"]
    /\ UNCHANGED <<tmp, npy, flock, pos, buf, saved, opened, attempt, renames,
                   firstLock, pre, ioerr>>
    /\ UNCHANGED pureVars

NextFault == Next \/ \E p \in Procs : CheckIOError(p) \/ LockFail(p)

SpecFault == Init /\ [][NextFault]_vars

\* No process other than p is inside an attempt.
Quiet(p) == \A q \in Procs \ {p} : pc[q] \in {"start", "done"} /\ fh[q] = 0

\* The batch of example() run again and again with no overlap: one attempt
\* at a time on the WorkItem, each with the body of example(), which saves.
NextSeq ==
    \E p \in Procs :
        \/ Quiet(p) /\ Open(p)
        \/ Quiet(p) /\ Lock(p)
        \/ Quiet(p) /\ Check(p)
        \/ Quiet(p) /\ EnterUnlink(p)
        \/ Quiet(p) /\ EnterClose(p)
        \/ \E k \in 0..RecLen : Quiet(p) /\ Save(p, k)
        \/ Quiet(p) /\ saved[p] /\ EndBody(p, FALSE)
        \/ Quiet(p) /\ ExitPath(p)
        \/ Quiet(p) /\ ExitClose(p)
        \/ Quiet(p) /\ Restart(p)

SpecSeq == Init /\ [][NextSeq]_vars

\* The attempts of AllProcs with bodies that end without storing a record
\* and without raising.  A file object that __exit__ left open is never
\* closed here: nothing in __exit__ closes it.
NextLive ==
    \E p \in AllProcs :
        \/ Open(p)
        \/ Lock(p)
        \/ Check(p)
        \/ EndBody(p, FALSE)
        \/ ExitPath(p)
        \/ ExitClose(p)
        \/ Restart(p)

\* Every process goes on with the step of its attempt that it can take, and
\* the lock is fair: a process that can take the lock again and again gets it.
Fairness ==
    \A p \in AllProcs :
        /\ WF_vars(Open(p) \/ Check(p) \/ EndBody(p, FALSE) \/ ExitPath(p)
                     \/ ExitClose(p))
        /\ SF_vars(Lock(p))

SpecLive == Init /\ [][NextLive]_vars /\ Fairness

(***************************************************************************)
(* example(): the loop over the items of a batch.                          *)
(***************************************************************************)

\* for iid in range(10)
NItems == 10

\* What the with statement of one item can raise to the loop ("none": it
\* ended normally): the values that exc takes in the attempts above.
AttemptExceptions ==
    {"none", "CalculationException", "LockException", "OSError",
     "BodyException"}

\* except (portalocker.LockException, CalculationException)
Caught == {"CalculationException", "LockException"}

InitBatch ==
    /\ InitFiles /\ InitEnumIdle /\ InitPathsIdle
    /\ item = 0
    /\ outcomes = <<>>
    /\ bpc = "loop"

\* One iteration of the loop, the attempt on the item raising e.  A caught
\* exception is logged and the loop goes on; any other leaves example().
ExampleItem(e) ==
    /\ bpc = "loop"
    /\ item < NItems
    /\ IF e = "none" \/ e \in Caught
         THEN /\ outcomes' = Append(outcomes, e)
              /\ item' = item + 1
              /\ bpc' = IF item + 1 = NItems THEN "done" ELSE "loop"
         ELSE /\ bpc' = "raised"
              /\ UNCHANGED <<item, outcomes>>
    /\ UNCHANGED <<fileVars, enumVars, pathVars>>

NextBatch == \E e \in AttemptExceptions : ExampleItem(e)

SpecBatch == InitBatch /\ [][NextBatch]_vars

(***************************************************************************)
(* Calculator.genComputationList: the walk over the hierarchy and the      *)
(* planes of every image, as the chain of generators runs it.              *)
(***************************************************************************)

MaxNodes == 3
NImages == 2
MaxSize == 2

ImageIds == 1..NImages

\* An _ImageWrapper, any other wrapper (listChildren gives its children),
\* and what conn.getObject returns for a (type, id) it cannot resolve.
Image(id) == [kind |-> "Image", id |-> id, children |-> <<>>]
Container(objs) == [kind |-> "Dataset", id |-> 0, children |-> objs]
NoObject == [kind |-> "None", id |-> 0, children |-> <<>>]

RECURSIVE TreesOfSize(_), ForestsOfSize(_)
TreesOfSize(n) ==
    (IF n = 1 THEN {Image(id) : id \in ImageIds} ELSE {})
        \cup {Container(f) : f \in ForestsOfSize(n - 1)}

ForestsOfSize(n) ==
    IF n = 0
    THEN {<<>>}
    ELSE UNION {{<<t>> \o f : t \in TreesOfSize(k),
                               f \in ForestsOfSize(n - k)} : k \in 1..n}

\* The objects of typeids, in order: any of them may be unresolvable.
RECURSIVE RootsOfSize(_)
RootsOfSize(n) ==
    IF n = 0
    THEN {<<>>}
    ELSE UNION {{<<t>> \o f :
                    t \in TreesOfSize(k)
                             \cup (IF k = 1 THEN {NoObject} ELSE {}),
                    f \in RootsOfSize(n - k)} : k \in 1..n}

RootLists == UNION {RootsOfSize(n) : n \in 0..MaxNodes}

\* im.getSizeC(), im.getSizeZ(), im.getSizeT() are dims[im.id]
Sizes == (0..MaxSize) \X (0..MaxSize) \X (0..MaxSize)
getSizeX(id) == 2 * id
getSizeY(id) == 2 * id + 1

InitEnum ==
    /\ InitFiles /\ InitBatchIdle /\ InitPathsIdle
    /\ roots \in RootLists
    /\ dims \in [ImageIds -> Sizes]
    /\ stack = <<[objs |-> roots, i |-> 1]>>
    /\ plane = <<>>
    /\ out = <<>>
    /\ walked = <<>>
    /\ epc = "walk"

\* planeParamsGen: the first (c, z, t) of the three nested xrange loops,
\* <<>> when they yield nothing.
FirstPlane(id, d) ==
    IF d[1] > 0 /\ d[2] > 0 /\ d[3] > 0 THEN <<id, 0, 0, 0>> ELSE <<>>

\* The mutant of NextPlane: the loop over t outside the loop over z.
NextPlaneTimeMiddle(p, d) ==
    IF p[3] + 1 < d[2] THEN <<p[1], p[2], p[3] + 1, p[4]>>
    ELSE IF p[4] + 1 < d[3] THEN <<p[1], p[2], 0, p[4] + 1>>
    ELSE IF p[2] + 1 < d[1] THEN <<p[1], p[2] + 1, 0, 0>>
    ELSE <<>>

\* planeParamsGen: the (c, z, t) after p, t innermost, then z, then c;
\* <<>> when the loops are over.
NextPlane(p, d) ==
    IF p[4] + 1 < d[3] THEN <<p[1], p[2], p[3], p[4] + 1>>
    ELSE IF p[3] + 1 < d[2] THEN <<p[1], p[2], p[3] + 1, 0>>
    ELSE IF p[2] + 1 < d[1] THEN <<p[1], p[2] + 1, 0, 0>>
    ELSE <<>>

Top == stack[Len(stack)]
Pop == SubSeq(stack, 1, Len(stack) - 1)
Advance == [stack EXCEPT ![Len(stack)].i = @ + 1]

\* The mutant of WalkStep: a container is passed over, not walked into.
WalkStepNoDescent ==
    /\ epc = "walk"
    /\ IF Top.i > Len(Top.objs)
         THEN /\ stack' = Pop
              /\ epc' = IF Len(stack) = 1 THEN "done" ELSE "walk"
              /\ UNCHANGED <<plane, walked>>
         ELSE LET o == Top.objs[Top.i] IN
              CASE o.kind = "None" ->
                     /\ epc' = "raised"
                     /\ UNCHANGED <<stack, plane, walked>>
                [] o.kind = "Image" ->
                     /\ stack' = Advance
                     /\ walked' = Append(walked, o.id)
                     /\ plane' = FirstPlane(o.id, dims[o.id])
                     /\ epc' = "planes"
                [] OTHER ->
                     /\ stack' = Advance
                     /\ UNCHANGED <<plane, walked, epc>>
    /\ UNCHANGED <<roots, dims, out>>
    /\ UNCHANGED <<fileVars, batchVars, pathVars>>

\* imageGenerator over genObjects: one step of the innermost running
\* "for o in objs".  The loop ends (and with the outermost one the whole
\* enumeration), or takes the next object: genObjects raises for an
\* unresolvable one, an image is yielded to genComputationList, which
\* starts planeParamsGen on it, and any other object is walked into.
WalkStep ==
    /\ epc = "walk"
    /\ IF Top.i > Len(Top.objs)
         THEN /\ stack' = Pop
              /\ epc' = IF Len(stack) = 1 THEN "done" ELSE "walk"
              /\ UNCHANGED <<plane, walked>>
         ELSE LET o == Top.objs[Top.i] IN
              CASE o.kind = "None" ->
                     /\ epc' = "raised"
                     /\ UNCHANGED <<stack, plane, walked>>
                [] o.kind = "Image" ->
                     /\ stack' = Advance
                     /\ walked' = Append(walked, o.id)
                     /\ plane' = FirstPlane(o.id, dims[o.id])
                     /\ epc' = "planes"
                [] OTHER ->
                     /\ stack' = Append(Advance,
                                        [objs |-> o.children, i |-> 1])
                     /\ UNCHANGED <<plane, walked, epc>>
    /\ UNCHANGED <<roots, dims, out>>
    /\ UNCHANGED <<fileVars, batchVars, pathVars>>

\* genComputationList: "for params in planeParamsGen(im): yield params",
\* one item, or the end of the image's planes and back to the walk.
PlaneStep ==
    /\ epc = "planes"
    /\ IF plane = <<>>
         THEN /\ epc' = "walk"
              /\ UNCHANGED <<plane, out>>
         ELSE /\ out' = Append(out, <<plane[1], plane[2], plane[3], plane[4],
                                      getSizeX(plane[1]), getSizeY(plane[1])>>)
              /\ plane' = NextPlane(plane, dims[plane[1]])
              /\ UNCHANGED epc
    /\ UNCHANGED <<roots, dims, stack, walked>>
    /\ UNCHANGED <<fileVars, batchVars, pathVars>>

NextEnum == WalkStep \/ PlaneStep

SpecEnum == InitEnum /\ [][NextEnum]_vars

(***************************************************************************)
(* FeatureFile.__init__ and the lock name of __enter__: the paths of a     *)
(* work item, as sequences of characters.                                  *)
(***************************************************************************)

\* Image ids below, at and above the eight digits of the padding, and plane
\* indices of one and two digits.
IdChoices == {0, 1, 11, 99999999, 100000000}
IndexChoices == {0, 1, 11}

WorkItems ==
    [imageId : IdChoices, channel : IndexChoices, zSlice : IndexChoices,
     timePoint : IndexChoices]

DigitChars == <<"0", "1", "2", "3", "4", "5", "6", "7", "8", "9">>

\* '%d' % n, for n >= 0
RECURSIVE FormatD(_)
FormatD(n) ==
    IF n < 10
    THEN <<DigitChars[n + 1]>>
    ELSE Append(FormatD(n \div 10), DigitChars[(n % 10) + 1])

RECURSIVE ZeroPad(_, _)
ZeroPad(cs, width) ==
    IF Len(cs) >= width THEN cs ELSE ZeroPad(<<"0">> \o cs, width)

\* '%08d' % n, for n >= 0
Format08D(n) == ZeroPad(FormatD(n), 8)

\* self.dir and os.path.join(self.dir, name)
Dir ==
    <<"S", "m", "a", "l", "l", "F", "e", "a", "t", "u", "r", "e", "S", "e",
      "t">>
Join(d, name) == d \o <<"/">> \o name

\* The mutant of FeatureFileName: no "-z" between the channel and the
\* z-slice.
FeatureFileNameNoDelimiter(iid, z, c, t) ==
    <<"i", "m", "a", "g", "e">> \o Format08D(iid)
        \o <<"-", "c">> \o FormatD(c)
        \o FormatD(z)
        \o <<"-", "t">> \o FormatD(t)

\* __init__(self, iid, z, c, t):
\*     self.filename = 'image%08d-c%d-z%d-t%d' % (iid, c, z, t)
FeatureFileName(iid, z, c, t) ==
    <<"i", "m", "a", "g", "e">> \o Format08D(iid)
        \o <<"-", "c">> \o FormatD(c)
        \o <<"-", "z">> \o FormatD(z)
        \o <<"-", "t">> \o FormatD(t)

InitPaths ==
    /\ InitFiles /\ InitEnumIdle /\ InitBatchIdle
    /\ work \in WorkItems \X WorkItems
    /\ ff = <<>>
    /\ fpc = "new"

\* FeatureFile(iid, z, c, t) for the next work item, every argument the
\* item's field of that name: filename and npy are set, the lock name is
\* not computed before __enter__.
FeatureFileInit ==
    /\ fpc = "new"
    /\ Len(ff) < Len(work)
    /\ LET w == work[Len(ff) + 1]
            filename == FeatureFileName(w.imageId, w.zSlice, w.channel,
                                        w.timePoint)
        IN  ff' = Append(ff, [filename |-> filename,
                              npy |-> Join(Dir, filename
                                               \o <<".", "n", "p", "y">>),
                              lock |-> <<>>])
    /\ fpc' = IF Len(ff) + 1 = Len(work) THEN "enter" ELSE "new"
    /\ UNCHANGED work
    /\ UNCHANGED <<fileVars, enumVars, batchVars>>

\* __enter__: lock = os.path.join(self.dir, self.filename + '.tmp'), for
\* the next FeatureFile that has not been entered.
EnterLockName ==
    /\ fpc = "enter"
    /\ \E k \in 1..Len(ff) :
          /\ ff[k].lock = <<>>
          /\ \A j \in 1..(k - 1) : ff[j].lock # <<>>
          /\ ff' = [ff EXCEPT ![k].lock =
                        Join(Dir, ff[k].filename \o <<".", "t", "m", "p">>)]
          /\ fpc' = IF k = Len(ff) THEN "made" ELSE "enter"
    /\ UNCHANGED work
    /\ UNCHANGED <<fileVars, enumVars, batchVars>>

NextPaths == FeatureFileInit \/ EnterLockName

SpecPaths == InitPaths /\ [][NextPaths]_vars

(***************************************************************************)
(* The outcomes of an attempt and the properties checked.                  *)
(***************************************************************************)

\* p is inside the scope: __enter__ returned and __exit__ has not finished.
InScope(p) == pc[p] \in {"body", "exit", "exit_close"}

\* The attempt of p is over (no crash) and ended as ...
Published(p) ==
    pc[p] = "done" /\ opened[p] /\ saved[p] /\ exc[p] # "OSError"
Discarded(p) ==
    pc[p] = "done" /\ opened[p] /\ ~saved[p] /\ exc[p] # "OSError"
AlreadyComputed(p) ==
    pc[p] = "done" /\ ~opened[p] /\ exc[p] = "CalculationException"

\* p holds no lock and has no file open.
Released(p) == fh[p] = 0 /\ \A i \in Inodes : flock[i] # p

\* The final path names no file, an empty file, or one complete record.
FinalComplete == AlreadyExists => \E p \in Procs : data[npy] = Rec(p)

\* Every process other than those of S has not begun its first attempt.
OnlyActive(S) == \A r \in Procs \ S : pc[r] = "start" /\ attempt[r] = 1

\* C1: at most one process at a time is inside the scope of the WorkItem:
\* no two processes are both between the return of __enter__ and the end of
\* __exit__.
C1_MutualExclusion ==
    \A p, q \in Procs : p # q => ~(InScope(p) /\ InScope(q))

\* C2: once the final path names a non-empty file, no step makes the final
\* path name another file or no file, and at most one rename onto the final
\* path ever happens.
C2_PublishedOnce ==
    [][/\ AlreadyExists => npy' = npy
       /\ renames' <= 1]_vars

\* C3: whenever the final path names a non-empty file, a reader that takes
\* no lock finds in it exactly one complete record passed to save().
C3_NoPartialData == FinalComplete

\* C4: when two processes each make one attempt and each stores a record
\* whenever it reaches the body, then once both attempts are over one is
\* Published and the other failed with AlreadyComputed.
C4_OnePublishedOneAlreadyComputed ==
    \A p, q \in Procs :
        ( /\ p # q
          /\ OnlyActive({p, q})
          /\ \A x \in {p, q} :
                /\ attempt[x] = 1
                /\ pc[x] = "done"
                /\ opened[x] => saved[x] )
        => \/ Published(p) /\ AlreadyComputed(q)
           \/ Published(q) /\ AlreadyComputed(p)

\* C5: when the attempt that got the lock first was Discarded, the other
\* attempt reaches Open and, if it stored a record, ends Published with the
\* final path holding its record.
C5_DiscardLeavesEntryAvailable ==
    \A p, q \in Procs :
        ( /\ p # q
          /\ OnlyActive({p, q})
          /\ attempt[p] = 1 /\ attempt[q] = 1
          /\ firstLock = p
          /\ Discarded(p) /\ Released(p)
          /\ pc[q] = "done" )
        => /\ opened[q]
           /\ saved[q] => (Published(q) /\ npy # 0 /\ data[npy] = Rec(q))

\* C6: an attempt that began when the final path named a non-empty file
\* never reaches Open, and ends with CalculationException (its unlink of the
\* pending path having succeeded) and with its lock released.
C6_FastFail ==
    \A p \in Procs :
        pre[p] => /\ ~opened[p]
                  /\ pc[p] = "done" => (AlreadyComputed(p) /\ Released(p))

\* C7: when the scope of an attempt has ended, also when the rename or the
\* delete of __exit__ failed, the lock is released and the file handle is
\* closed.
C7_ExitReleasesLock ==
    \A p \in Procs : (pc[p] = "done" /\ opened[p]) => Released(p)

\* C8: after a process was killed during its attempt, with no other process
\* active, the final path names no file, an empty file or a complete record,
\* and the killed process holds no lock.
C8_CrashSafety ==
    \A p \in Procs :
        (pc[p] = "crashed" /\ OnlyActive({p})) => (FinalComplete /\ Released(p))

\* C9: an attempt whose check of the final path met an I/O error other than
\* "not found" does not reach Open.
C9_CheckErrorIsFatal ==
    \A p \in Procs : ioerr[p] => ~opened[p]

\* C10: every attempt that is over ended Published, Discarded or with
\* AlreadyComputed, and with no other error.
C10_ThreeOutcomes ==
    \A p \in Procs :
        pc[p] = "done" => (Published(p) \/ Discarded(p) \/ AlreadyComputed(p))

\* No process is inside an attempt.
AllQuiet == \A p \in Procs : pc[p] \in {"start", "done"} /\ fh[p] = 0

C12_SequentialIdempotent ==
    (AllQuiet /\ firstLock # 0) =>
        /\ tmp = 0
        /\ renames = 1
        /\ npy # 0 /\ data[npy] = Rec(firstLock)
        /\ \A p \in Procs :
              pc[p] = "done" =>
                 IF p = firstLock /\ attempt[p] = 1
                   THEN Published(p) ELSE AlreadyComputed(p)

\* Every process has made its last attempt, all but the first of them ending
\* with AlreadyComputed.
C12_Witness ==
    /\ AllQuiet
    /\ \A p \in Procs : attempt[p] = MaxAttempts /\ AlreadyComputed(p)
    /\ npy # 0 /\ data[npy] = Rec(firstLock)

\* C17: while a process is inside the scope and has not yet renamed or
\* deleted the pending path, the pending path names the file that the process
\* has open and holds the lock on.
C17_PendingIsLockedFile ==
    \A p \in Procs :
        pc[p] \in {"body", "exit"} => (tmp = fh[p] /\ flock[fh[p]] = p)

\* C18: the open of the pending path by an attempt, which holds no lock
\* yet, leaves the content of the file that the pending path names unchanged.
C18_OnlyHolderChangesPending ==
    [][\A p \in Procs :
          (pc[p] = "start" /\ pc'[p] = "lock" /\ tmp # 0)
          => data'[tmp] = data[tmp]]_vars

\* Every attempt has terminated: each process has ended its last attempt or
\* has never begun one.
AllDone == \A p \in Procs : pc[p] = "done" \/ (pc[p] = "start" /\ attempt[p] = 1)

C13_FailureNeverAborts ==
    bpc \in {"done", "raised"} => (item = NItems /\ Len(outcomes) = NItems)

\* The items of one image by position: item k of sizeC * sizeZ * sizeT has
\* c = (k-1) div (sizeZ * sizeT), z = ((k-1) div sizeT) mod sizeZ and
\* t = (k-1) mod sizeT.
PlanesOf(id) ==
    LET Z == dims[id][2]
        T == dims[id][3]
    IN  [k \in 1..(dims[id][1] * Z * T) |->
            <<id, (k - 1) \div (Z * T), ((k - 1) \div T) % Z, (k - 1) % T,
              getSizeX(id), getSizeY(id)>>]

RECURSIVE PlanesOfAll(_)
PlanesOfAll(ims) ==
    IF ims = <<>> THEN <<>> ELSE PlanesOf(Head(ims)) \o PlanesOfAll(Tail(ims))

\* The image leaves of a list of nodes, depth first, in listing order.
RECURSIVE Leaves(_)
Leaves(objs) ==
    IF objs = <<>>
    THEN <<>>
    ELSE (IF Head(objs).kind = "Image"
          THEN <<Head(objs).id>>
          ELSE Leaves(Head(objs).children)) \o Leaves(Tail(objs))

\* The roots before the first unresolvable one.
RECURSIVE Resolved(_)
Resolved(objs) ==
    IF objs = <<>> \/ Head(objs).kind = "None"
    THEN <<>>
    ELSE <<Head(objs)>> \o Resolved(Tail(objs))

\* C14: between two images and at the end, the items emitted are the items
\* of the images walked so far, image after image in the order of the walk,
\* each image's sizeC * sizeZ * sizeT items with every (c, z, t) once, c
\* outermost, z in the middle, t innermost, and carrying sizeX and sizeY;
\* while an image is being emitted, its items so far are a prefix of that.
C14_PlanesInOrder ==
    /\ epc \in {"walk", "done", "raised"} => out = PlanesOfAll(walked)
    /\ epc = "planes" =>
          /\ Len(out) <= Len(PlanesOfAll(walked))
          /\ out = SubSeq(PlanesOfAll(walked), 1, Len(out))
          /\ plane = <<>> => out = PlanesOfAll(walked)

C14_Witness ==
    /\ epc = "done"
    /\ Len(walked) = 2
    /\ dims[walked[1]] = <<2, 2, 2>>
    /\ dims[walked[2]] = <<2, 1, 2>>
    /\ walked[1] # walked[2]
    /\ Len(out) = 12

\* C15: the images yielded are the image leaves under the input nodes, one
\* per occurrence, depth first in listing order at every depth: all of
\* them when the walk is over, a prefix of them while it runs.
C15_WalkIsPreOrder ==
    /\ epc = "done" => walked = Leaves(roots)
    /\ epc = "raised" => walked = Leaves(Resolved(roots))
    /\ epc \in {"walk", "planes"} =>
          /\ Len(walked) <= Len(Leaves(roots))
          /\ walked = SubSeq(Leaves(roots), 1, Len(walked))

C15_Witness ==
    /\ epc = "done"
    /\ roots = <<Image(2), Container(<<Image(1)>>)>>
    /\ walked = <<2, 1>>

\* Reading a stem back.  The number a sequence of digits writes, -1 when a
\* character is not a digit or there is none.
RECURSIVE NumberOf(_)
NumberOf(cs) ==
    IF cs = <<>> \/ \E i \in 1..Len(cs) : \A d \in 1..10 : DigitChars[d] # cs[i]
    THEN -1
    ELSE LET last == (CHOOSE d \in 1..10 : DigitChars[d] = cs[Len(cs)]) - 1
         IN  IF Len(cs) = 1
             THEN last
             ELSE 10 * NumberOf(SubSeq(cs, 1, Len(cs) - 1)) + last

\* The positions of the "-" of a stem, in order.
Dashes(cs) == {i \in 1..Len(cs) : cs[i] = "-"}
NthDash(cs, n) ==
    CHOOSE i \in Dashes(cs) : Cardinality({j \in Dashes(cs) : j <= i}) = n

\* cs is image<id>-c<c>-z<z>-t<t>, with at least eight digits of id.
StemReads(cs, w) ==
    /\ Cardinality(Dashes(cs)) = 3
    /\ LET d1 == NthDash(cs, 1)
            d2 == NthDash(cs, 2)
            d3 == NthDash(cs, 3)
        IN  /\ SubSeq(cs, 1, 5) = <<"i", "m", "a", "g", "e">>
            /\ d1 - 6 >= 8
            /\ NumberOf(SubSeq(cs, 6, d1 - 1)) = w.imageId
            /\ w.imageId < 100000000 => d1 - 6 = 8
            /\ cs[d1 + 1] = "c"
            /\ NumberOf(SubSeq(cs, d1 + 2, d2 - 1)) = w.channel
            /\ cs[d2 + 1] = "z"
            /\ NumberOf(SubSeq(cs, d2 + 2, d3 - 1)) = w.zSlice
            /\ cs[d3 + 1] = "t"
            /\ NumberOf(SubSeq(cs, d3 + 2, Len(cs))) = w.timePoint

\* The stem of a path: what is between the directory and the extension.
StemOf(path) == SubSeq(path, Len(Dir) + 2, Len(path) - 4)

\* C16: the stem of every FeatureFile reads back as its work item's
\* image id (eight digits, zero-padded), channel, z-slice and time point;
\* its final and pending paths are that stem in the directory; two work
\* items that differ have different final paths and different pending
\* paths; and no pending path is a final path.
C16_PathsBoundToWorkItem ==
    /\ \A k \in 1..Len(ff) :
          /\ StemReads(ff[k].filename, work[k])
          /\ StemOf(ff[k].npy) = ff[k].filename
          /\ ff[k].lock # <<>> => StemOf(ff[k].lock) = ff[k].filename
    /\ \A j, k \in 1..Len(ff) :
          /\ work[j] # work[k] =>
                /\ ff[j].npy # ff[k].npy
                /\ (ff[j].lock # <<>> /\ ff[k].lock # <<>>) =>
                       ff[j].lock # ff[k].lock
          /\ ff[j].lock # ff[k].npy

C16_Witness ==
    /\ fpc = "made"
    /\ work[1] = [imageId |-> 1, channel |-> 1, zSlice |-> 11,
                   timePoint |-> 0]
    /\ work[2] = [imageId |-> 1, channel |-> 11, zSlice |-> 1,
                   timePoint |-> 0]
    /\ ff[1].lock # ff[2].lock
    /\ ff[1].npy # ff[2].npy

====
